---- MODULE Spec2Model ----
(***************************************************************************)
(* Model of wrapper.Handler (src/wrapper/sqlite.py): the SQL text          *)
(* builders, the statement executor with its connection discipline, and    *)
(* the backup lifecycle (rotation, check, restore, delete).                *)
(*                                                                         *)
(* Texts are TLA+ strings built with \o exactly as the f-strings build     *)
(* them.  A mapping (dict) is a sequence of <<key, value>> pairs in        *)
(* iteration order.  An optional argument is [some, val]; None is          *)
(* [some |-> FALSE].  A From argument is [list, names]: a bare string has  *)
(* list = FALSE and one name.                                              *)
(***************************************************************************)
EXTENDS Integers, Sequences, FiniteSets, TLC

VARIABLES
    cfg,          \* the frozen dataclass fields: [backups, threshold]
    constructed,  \* __post_init__ has returned normally
    live,         \* the live database file: [tabs, rows, mode]
    bak,          \* backup files on disk: stamp -> [tabs, rows, mode]
    clock,        \* datetime.now(), as the number of stamps already handed out
    created,      \* history: stamps of every backup file ever written
    call,         \* the last public call and its arguments
    result,       \* how the last call ended: "ok", "noop" or the exception
    trace,        \* engine and file events of the last call, in order
    sql           \* text of the statements the last call built

vars == <<cfg, constructed, live, bak, clock, created, call, result, trace, sql>>

----------------------------------------------------------------------------
(* Bounds *)

MaxBackups == 3
MaxBatch == 2
MaxRows == 1

\* the dataclass defaults
DefaultBackups == 3
DefaultThreshold == 10

----------------------------------------------------------------------------
(* Python values *)

None == [some |-> FALSE, val |-> <<>>]
Some(v) == [some |-> TRUE, val |-> v]

\* bool(x) for an optional list or dict
Truthy(x) == x.some /\ Len(x.val) > 0

PyInt(t) == [py |-> "int", text |-> t]
PyStr(t) == [py |-> "str", text |-> t]

\* repr() of a str or int
Repr(v) == IF v.py = "str" THEN "'" \o v.text \o "'" ELSE v.text

\* sep.join(items)
RECURSIVE Join(_, _)
Join(items, sep) ==
    IF Len(items) = 0 THEN ""
    ELSE IF Len(items) = 1 THEN items[1]
    ELSE items[1] \o sep \o Join(Tail(items), sep)

\* str(tuple(items)): a one-element tuple prints with a trailing comma
TupleRepr(items) ==
    IF Len(items) = 1 THEN "(" \o Repr(items[1]) \o ",)"
    ELSE "(" \o Join([i \in 1..Len(items) |-> Repr(items[i])], ", ") \o ")"

Keys(data) == [i \in 1..Len(data) |-> PyStr(data[i][1])]
Values(data) == [i \in 1..Len(data) |-> data[i][2]]

----------------------------------------------------------------------------
(* SQL text builders *)

_sql_select(select) == IF Truthy(select) THEN Join(select.val, ", ") ELSE "*"

_sql_join(tables) ==
    IF tables.list THEN Join(tables.names, " NATURAL JOIN ") ELSE tables.names[1]

_sql_where(where) ==
    IF Truthy(where)
    THEN "WHERE " \o Join([i \in 1..Len(where.val) |->
                             where.val[i][1] \o " " \o where.val[i][2]], " AND ")
    ELSE ""

_sql_order_spaced(order) ==
    IF Truthy(order)
    THEN "ORDER BY " \o Join([i \in 1..Len(order.val) |->
                                order.val[i][1] \o " " \o order.val[i][2]], ", ")
    ELSE ""

_sql_order(order) ==
    IF Truthy(order)
    THEN "ORDER BY " \o Join([i \in 1..Len(order.val) |->
                                order.val[i][1] \o " " \o order.val[i][2]], ",")
    ELSE ""

_sql_ignore(ignore) == IF ignore THEN "OR IGNORE " ELSE ""

_row_insert(data, ignore, table) ==
    "INSERT " \o _sql_ignore(ignore) \o "INTO " \o table \o " "
        \o TupleRepr(Keys(data)) \o " VALUES " \o TupleRepr(Values(data)) \o ";"

_row_update(table, data, where) ==
    "UPDATE " \o table \o " SET " \o TupleRepr(Keys(data)) \o " = "
        \o TupleRepr(Values(data)) \o " " \o _sql_where(where) \o ";"

_row_delete(table, where) == "DELETE FROM " \o table \o " " \o _sql_where(where) \o ";"

_table_drop(table) == "DROP TABLE IF EXISTS " \o table \o ";"

sql_select(tables, select, where, order) ==
    "SELECT " \o _sql_select(select) \o " FROM " \o _sql_join(tables) \o " "
        \o _sql_where(where) \o " " \o _sql_order(order) \o ";"

sql_count(tables, where) ==
    "SELECT COUNT(*) FROM " \o _sql_join(tables) \o " " \o _sql_where(where) \o ";"

----------------------------------------------------------------------------
(* Files and the engine *)

Tables == {"t"}
Protected == "sqlite_master"

DefaultMode == "rw-r--r--"
Modes == {DefaultMode, "rw-------"}

\* a file sqlite3.connect has just created: no table in it
EmptyFile == [tabs |-> {}, rows |-> [t \in Tables |-> 0], mode |-> DefaultMode]

Min(S) == CHOOSE x \in S : \A y \in S : x <= y

Stmt(kind, table, arity, ignore, hits, text) ==
    [kind |-> kind, table |-> table, arity |-> arity, ignore |-> ignore,
     hits |-> hits, text |-> text]

\* INSERT, UPDATE and DELETE open the implicit transaction of the sqlite3 module
IsDML(s) == s.kind \in {"insert", "update", "delete"}

\* the engine refuses the statement: no such table, a syntax error in the text
\* (the "(x,)" of a one-element tuple, an empty or reserved name), or a
\* constraint conflict that OR IGNORE does not absorb
Refused(s, f, conflict) ==
    CASE s.kind = "insert" ->
            s.table \notin f.tabs \/ s.arity = 1 \/ (conflict /\ ~s.ignore)
      [] s.kind = "update" -> s.table \notin f.tabs \/ s.arity = 1 \/ conflict
      [] s.kind = "delete" -> s.table \notin f.tabs \/ conflict
      [] s.kind = "drop" -> s.table = Protected \/ conflict
      [] OTHER -> conflict

\* the statement's effect on the tables of the file
Applied(s, f, conflict) ==
    CASE s.kind = "insert" /\ ~conflict ->
            [f EXCEPT !.rows[s.table] = @ + 1]
      [] s.kind = "delete" ->
            [f EXCEPT !.rows[s.table] = IF s.hits < @ THEN @ - s.hits ELSE 0]
      [] s.kind = "drop" /\ s.table \in f.tabs ->
            [f EXCEPT !.tabs = @ \ {s.table}, !.rows[s.table] = 0]
      [] OTHER -> f

\* cur.execute(sql) for sqls[i..]: st = [committed, working, intx, events, failed]
RECURSIVE RunStmts(_, _, _, _)
RunStmts(sqls, i, st, k) ==
    IF i > Len(sqls) THEN st
    ELSE LET s == sqls[i]
             conflict == (k = i)
         IN IF Refused(s, st.working, conflict)
            THEN [st EXCEPT !.events = Append(@, "exec_failed"), !.failed = TRUE]
            ELSE LET intx == st.intx \/ IsDML(s)
                     work == Applied(s, st.working, conflict)
                 IN RunStmts(sqls, i + 1,
                             [committed |-> IF intx THEN st.committed ELSE work,
                              working |-> work,
                              intx |-> intx,
                              events |-> Append(st.events, "exec"),
                              failed |-> FALSE], k)

NoFault == [at |-> "none", k |-> 0]
Fault(at) == [at |-> at, k |-> 0]
Conflict(k) == [at |-> "stmt", k |-> k]

_conn_run == <<"pragma", "pragma", "pragma">>

\* contextlib.closing: the connection is closed however the block is left
closing_leaky(events) == IF "rollback" \in {events[i] : i \in 1..Len(events)}
                         THEN events ELSE Append(events, "close")
closing(events) == Append(events, "close")

Outcome(f, events, raised) == [file |-> f, events |-> events, raised |-> raised]

\* _execute: connect, the pragmas, every statement on one cursor; `with conn`
\* commits on a normal exit and rolls back on an exception; closing() closes
_execute(f, sqls, fault) ==
    IF fault.at = "connect"
    THEN Outcome(f, <<"connect_failed">>, "OperationalError")
    ELSE IF fault.at = "pragma"
    THEN Outcome(f, closing(<<"connect", "pragma_failed", "rollback">>),
                 "OperationalError")
    ELSE LET st == RunStmts(sqls, 1,
                            [committed |-> f, working |-> f, intx |-> FALSE,
                             events |-> <<"connect">> \o _conn_run,
                             failed |-> FALSE], fault.k)
         IN IF st.failed
            THEN Outcome(st.committed, closing(Append(st.events, "rollback")),
                         "OperationalError")
            ELSE Outcome(st.working, closing(Append(st.events, "commit")), "")

\* _fetch: the pragmas in their own `with conn`, then one statement on a cursor
_fetch(f, fault) ==
    CASE fault.at = "connect" -> Outcome(f, <<"connect_failed">>, "OperationalError")
      [] fault.at = "pragma" ->
            Outcome(f, closing(<<"connect", "pragma_failed", "rollback">>),
                    "OperationalError")
      [] fault.at = "stmt" ->
            Outcome(f, closing(<<"connect">> \o _conn_run \o <<"commit", "exec_failed">>),
                    "OperationalError")
      [] OTHER ->
            Outcome(f, closing(<<"connect">> \o _conn_run \o <<"commit", "exec", "fetchmany">>),
                    "")

\* _export: as _fetch, then the rows are written to the CSV file
_export(f, fault) ==
    CASE fault.at = "connect" -> Outcome(f, <<"connect_failed">>, "OperationalError")
      [] fault.at = "pragma" ->
            Outcome(f, closing(<<"connect", "pragma_failed", "rollback">>),
                    "OperationalError")
      [] fault.at = "stmt" ->
            Outcome(f, closing(<<"connect">> \o _conn_run \o <<"commit", "exec_failed">>),
                    "OperationalError")
      [] fault.at = "open" ->
            Outcome(f, closing(<<"connect">> \o _conn_run \o <<"commit", "exec", "open_failed">>),
                    "OSError")
      [] OTHER ->
            Outcome(f, closing(<<"connect">> \o _conn_run
                                \o <<"commit", "exec", "open", "writerows", "close_file">>),
                    "")

\* __post_init__: connect, open the schema file, executescript inside `with conn`
__post_init__(f, fault) ==
    CASE fault.at = "connect" -> Outcome(f, <<"connect_failed">>, "OperationalError")
      [] fault.at = "open" ->
            Outcome(f, closing(<<"connect", "open_failed">>), "OSError")
      [] fault.at = "stmt" ->
            Outcome(f, closing(<<"connect", "open", "script_failed", "rollback", "close_file">>),
                    "OperationalError")
      [] OTHER ->
            Outcome([f EXCEPT !.tabs = Tables],
                    closing(<<"connect", "open", "script", "commit", "close_file">>), "")

\* connections the events leave open
RECURSIVE OpenCount(_)
OpenCount(events) ==
    IF Len(events) = 0 THEN 0
    ELSE OpenCount(Tail(events))
         + (IF Head(events) \in {"connect", "connect_bck"} THEN 1
            ELSE IF Head(events) \in {"close", "close_bck"} THEN -1 ELSE 0)

----------------------------------------------------------------------------
(* Backup lifecycle *)

Abs(n) == IF n < 0 THEN -n ELSE n

\* the cached property __backups
Retention(c) == Abs(c.backups)

\* backup_list: the stamps of the files the glob matches
backup_list(baks) == DOMAIN baks

Without(baks, s) == [x \in DOMAIN baks \ {s} |-> baks[x]]
With(baks, s, f) == [x \in DOMAIN baks \cup {s} |-> IF x = s THEN f ELSE baks[x]]

BackupOutcome(baks, events, raised, wrote) ==
    [bak |-> baks, events |-> events, raised |-> raised, wrote |-> wrote]

\* backup_create: the stamp is the clock reading; when the count has reached the
\* retention the first of the sorted names is unlinked (sorted(...)[0] of an empty
\* list raises IndexError); then the live file is copied into the new one
\* len(backups) >= self.__backups
AtRetention(backups, n) == Cardinality(backups) >= n

\* sorted(backups)[0]: the smallest name is the earliest stamp
Oldest_last(backups) == CHOOSE x \in backups : \A y \in backups : x >= y
Oldest(backups) == Min(backups)

backup_create(f, baks, now, n, fault) ==
    LET backups == backup_list(baks)
        evict == AtRetention(backups, n)
    IN IF evict /\ backups = {}
       THEN BackupOutcome(baks, <<>>, "IndexError", {})
       ELSE LET kept == IF evict THEN Without(baks, Oldest(backups)) ELSE baks
                ev == IF evict THEN <<"unlink">> ELSE <<>>
            IN CASE fault.at = "connect" ->
                      BackupOutcome(kept, ev \o <<"connect_failed">>,
                                    "OperationalError", {})
                 [] fault.at = "connect_bck" ->
                      BackupOutcome(kept, ev \o closing(<<"connect", "connect_failed">>),
                                    "OperationalError", {})
                 [] fault.at = "backup" ->
                      BackupOutcome(With(kept, now, EmptyFile),
                                    ev \o closing(<<"connect", "connect_bck", "backup_failed",
                                                    "rollback", "close_bck">>),
                                    "OperationalError", {now})
                 [] OTHER ->
                      BackupOutcome(With(kept, now, [f EXCEPT !.mode = DefaultMode]),
                                    ev \o closing(<<"connect", "connect_bck", "backup",
                                                    "commit", "close_bck">>),
                                    "", {now})

\* backup_check: the exception it raises, "" when it returns the path
backup_check_exists(f, baks, backup) ==
    IF backup \notin DOMAIN baks THEN "FileNotFoundError" ELSE ""
backup_check(f, baks, backup) ==
    IF backup \notin DOMAIN baks THEN "FileNotFoundError"
    ELSE IF baks[backup].mode # f.mode THEN "PermissionError"
    ELSE ""

Ret(f, baks, events, raised, wrote, texts) ==
    [live |-> f, bak |-> baks, events |-> events, raised |-> raised,
     wrote |-> wrote, sql |-> texts]

\* backup_set: path.replace(database) moves the backup file over the live one
backup_set_copy(f, baks, backup) ==
    LET e == backup_check(f, baks, backup)
    IN IF e # "" THEN Ret(f, baks, <<>>, e, {}, <<>>)
       ELSE Ret(baks[backup], baks, <<"replace">>, "", {}, <<>>)
backup_set(f, baks, backup) ==
    LET e == backup_check(f, baks, backup)
    IN IF e # "" THEN Ret(f, baks, <<>>, e, {}, <<>>)
       ELSE Ret(baks[backup], Without(baks, backup), <<"replace">>, "", {}, <<>>)

\* backup_pop
backup_pop(f, baks, backup) ==
    LET e == backup_check(f, baks, backup)
    IN IF e # "" THEN Ret(f, baks, <<>>, e, {}, <<>>)
       ELSE Ret(f, Without(baks, backup), <<"unlink">>, "", {}, <<>>)

----------------------------------------------------------------------------
(* Row and table operations *)

Texts(sqls) == [i \in 1..Len(sqls) |-> sqls[i].text]

NonEmpty(items) == SelectSeq(items, LAMBDA p : Len(p) > 0)

\* row_insert, data already wrapped into a list when it was a single mapping
row_insert(f, baks, now, c, table, data, ignore, bfault, efault) ==
    IF table = "" THEN Ret(f, baks, <<>>, "", {}, <<>>)
    ELSE LET b == IF Len(data) > c.threshold
                  THEN backup_create(f, baks, now, Retention(c), bfault)
                  ELSE BackupOutcome(baks, <<>>, "", {})
         IN IF b.raised # ""
            THEN Ret(f, b.bak, b.events, b.raised, b.wrote, <<>>)
            ELSE LET pairs == NonEmpty(data)
                     sqls == [i \in 1..Len(pairs) |->
                                Stmt("insert", table, Len(pairs[i]), ignore, 0,
                                     _row_insert(pairs[i], ignore, table))]
                     o == _execute(f, sqls, efault)
                 IN Ret(o.file, b.bak, b.events \o o.events, o.raised, b.wrote,
                        Texts(sqls))

row_update(f, baks, table, data, where, fault) ==
    IF ~(table # "" /\ Len(data) > 0) THEN Ret(f, baks, <<>>, "", {}, <<>>)
    ELSE LET sqls == <<Stmt("update", table, Len(data), FALSE, 0,
                            _row_update(table, data, where))>>
             o == _execute(f, sqls, fault)
         IN Ret(o.file, baks, o.events, o.raised, {}, Texts(sqls))

row_delete(f, baks, table, where, hits, fault) ==
    IF table = "" THEN Ret(f, baks, <<>>, "", {}, <<>>)
    ELSE LET sqls == <<Stmt("delete", table, 0, FALSE, hits, _row_delete(table, where))>>
             o == _execute(f, sqls, fault)
         IN Ret(o.file, baks, o.events, o.raised, {}, Texts(sqls))

\* table_drop: a bare name is wrapped, empty names are filtered out
table_drop(f, baks, tables, fault) ==
    LET names == SelectSeq(tables.names, LAMBDA t : t # "")
        sqls == [i \in 1..Len(names) |->
                   Stmt("drop", names[i], 0, FALSE, 0, _table_drop(names[i]))]
        o == _execute(f, sqls, fault)
    IN Ret(o.file, baks, o.events, o.raised, {}, Texts(sqls))

----------------------------------------------------------------------------
(* Inputs *)

Row1 == << <<"a", PyInt("1")>> >>
Row2 == << <<"a", PyInt("1")>>, <<"b", PyStr("x")>> >>
Pairs == {<<>>, Row1, Row2}

\* a list of mappings, or one mapping (which row_insert wraps into a list)
Batches == UNION {[1..n -> {<<>>, Row2}] : n \in 0..MaxBatch}
InsertData == Batches \cup {<<p>> : p \in Pairs}

Names == {"", "t"}

Single(name) == [list |-> FALSE, names |-> <<name>>]
List(names) == [list |-> TRUE, names |-> names]
DropArgs == {Single(""), Single("t"), Single(Protected), List(<<>>),
             List(<<"", "t">>), List(<<"t", Protected>>), List(<<Protected, "t">>)}

Thresholds == {0, 1}
\* a negative count is taken by its absolute value
BackupsInputs == {0, -1}
RotationInputs == (-MaxBackups)..0

\* a behaviour takes one stamp more than the retention keeps
MaxClock(c) == Retention(c) + 1
Stamps(c) == 1..MaxClock(c)

ExecFaults(n) == {NoFault, Fault("connect"), Fault("pragma")} \cup {Conflict(k) : k \in 1..n}
BackupFaults == {NoFault, Fault("connect"), Fault("connect_bck"), Fault("backup")}
FetchFaults == {NoFault, Fault("connect"), Fault("pragma"), Fault("stmt")}
InitFaults == {NoFault, Fault("connect"), Fault("open"), Fault("stmt")}

----------------------------------------------------------------------------
(* The handler as a state machine: one action per public operation *)

Call(op, table, size, truthy, target) ==
    [op |-> op, table |-> table, size |-> size, truthy |-> truthy, target |-> target]

Fresh ==
    /\ constructed = FALSE
    /\ live = EmptyFile
    /\ bak = <<>>
    /\ clock = 0
    /\ created = {}
    /\ call = Call("none", "", 0, 0, 0)
    /\ result = "ok"
    /\ trace = <<>>
    /\ sql = <<>>

Init ==
    /\ cfg \in [backups : BackupsInputs, threshold : Thresholds]
    /\ Fresh

\* what a returning or raising call leaves behind
Finish(c, r) ==
    /\ call' = c
    /\ live' = r.live
    /\ bak' = r.bak
    /\ created' = created \cup r.wrote
    /\ result' = IF r.raised = "" THEN "ok" ELSE r.raised
    /\ trace' = r.events
    /\ sql' = r.sql

Construct ==
    /\ ~constructed
    /\ \E fault \in InitFaults :
         LET o == __post_init__(live, fault)
         IN /\ Finish(Call("construct", "", 0, 0, 0),
                      Ret(o.file, bak, o.events, o.raised, {}, <<>>))
            /\ constructed' = (o.raised = "")
    /\ UNCHANGED <<cfg, clock>>

BackupCreate ==
    /\ constructed
    /\ clock < MaxClock(cfg)
    /\ \E fault \in BackupFaults :
         LET b == backup_create(live, bak, clock + 1, Retention(cfg), fault)
         IN Finish(Call("backup_create", "", 0, 0, clock + 1),
                   Ret(live, b.bak, b.events, b.raised, b.wrote, <<>>))
    /\ clock' = clock + 1
    /\ UNCHANGED <<cfg, constructed>>

BackupSet ==
    /\ constructed
    /\ \E backup \in Stamps(cfg) :
         Finish(Call("backup_set", "", 0, 0, backup), backup_set(live, bak, backup))
    /\ UNCHANGED <<cfg, constructed, clock>>

BackupPop ==
    /\ constructed
    /\ \E backup \in Stamps(cfg) :
         Finish(Call("backup_pop", "", 0, 0, backup), backup_pop(live, bak, backup))
    /\ UNCHANGED <<cfg, constructed, clock>>

\* row_insert; the backup it may take reads the clock
RowInsert ==
    /\ constructed
    /\ \E table \in Names, data \in InsertData, ignore \in BOOLEAN :
         LET backs == table # "" /\ Len(data) > cfg.threshold
             truthy == Len(NonEmpty(data))
         IN /\ backs => clock < MaxClock(cfg)
            /\ \E bfault \in IF backs THEN {NoFault, Fault("connect")} ELSE {NoFault},
                  efault \in IF table = "" THEN {NoFault} ELSE ExecFaults(truthy) :
                 LET r == row_insert(live, bak, clock + 1, cfg, table, data, ignore,
                                     bfault, efault)
                 IN /\ \A t \in Tables : r.live.rows[t] <= MaxRows
                    /\ Finish(Call("row_insert", table, Len(data), truthy, 0), r)
            /\ clock' = IF backs THEN clock + 1 ELSE clock
    /\ UNCHANGED <<cfg, constructed>>

RowUpdate ==
    /\ constructed
    /\ \E table \in Names, data \in Pairs, fault \in ExecFaults(1) :
         Finish(Call("row_update", table, 1, IF Len(data) > 0 THEN 1 ELSE 0, 0),
                row_update(live, bak, table, data, None, fault))
    /\ UNCHANGED <<cfg, constructed, clock>>

RowDelete ==
    /\ constructed
    /\ \E table \in Names, hits \in 0..MaxRows, fault \in ExecFaults(1) :
         /\ hits <= (IF table \in Tables THEN live.rows[table] ELSE 0)
         /\ Finish(Call("row_delete", table, 0, 0, 0),
                   row_delete(live, bak, table, None, hits, fault))
    /\ UNCHANGED <<cfg, constructed, clock>>

TableDrop ==
    /\ constructed
    /\ \E tables \in DropArgs, fault \in ExecFaults(2) :
         Finish(Call("table_drop", "", Len(tables.names), 0, 0),
                table_drop(live, bak, tables, fault))
    /\ UNCHANGED <<cfg, constructed, clock>>

\* fetch, fetch_all and count all end in _fetch
Fetch ==
    /\ constructed
    /\ \E fault \in FetchFaults, counting \in BOOLEAN :
         LET text == IF counting THEN sql_count(Single("t"), None)
                     ELSE sql_select(Single("t"), None, None, None)
             o == _fetch(live, fault)
         IN Finish(Call(IF counting THEN "count" ELSE "fetch", "t", 0, 0, 0),
                   Ret(o.file, bak, o.events, o.raised, {}, <<text>>))
    /\ UNCHANGED <<cfg, constructed, clock>>

Export ==
    /\ constructed
    /\ \E fault \in FetchFaults \cup {Fault("open")} :
         LET o == _export(live, fault)
         IN Finish(Call("export", "t", 0, 0, 0),
                   Ret(o.file, bak, o.events, o.raised, {},
                       <<sql_select(Single("t"), None, None, None)>>))
    /\ UNCHANGED <<cfg, constructed, clock>>

\* the environment changes the permission bits of a backup file
Chmod ==
    /\ \E backup \in DOMAIN bak, mode \in Modes :
         /\ bak[backup].mode # mode
         /\ Finish(Call("chmod", "", 0, 0, backup),
                   Ret(live, [bak EXCEPT ![backup].mode = mode], <<>>, "", {}, <<>>))
    /\ UNCHANGED <<cfg, constructed, clock>>

Next ==
    \/ Construct
    \/ BackupCreate
    \/ BackupSet
    \/ BackupPop
    \/ RowInsert
    \/ RowUpdate
    \/ RowDelete
    \/ TableDrop
    \/ Fetch
    \/ Export
    \/ Chmod

Spec == Init /\ [][Next]_vars

\* the backup operations and table_drop, with a retention that keeps several files
InitLifecycle ==
    /\ cfg \in [backups : RotationInputs, threshold : {DefaultThreshold}]
    /\ Fresh

NextLifecycle ==
    \/ Construct
    \/ BackupCreate
    \/ BackupSet
    \/ BackupPop
    \/ TableDrop

SpecLifecycle == InitLifecycle /\ [][NextLifecycle]_vars

\* backup_create calls only, from a directory with no backup file
NextRotation ==
    \/ Construct
    \/ BackupCreate

SpecRotation == InitLifecycle /\ [][NextRotation]_vars

----------------------------------------------------------------------------
(* The text builders alone: every call builds one statement from its arguments *)

\* statement.val_eq and statement.val_null, which callers use for where fragments
val_eq(val) == "== '" \o val \o "'"
val_null(negate) == "IS " \o (IF negate THEN "NOT " ELSE "") \o "NULL"

FromInputs == {Single("t1"), List(<<"t1", "t2">>), List(<<"t1", "t2", "t3">>)}
SelectInputs == {None, Some(<<>>), Some(<<"t1.x">>), Some(<<"t1.x", "t2.y">>)}
WhereInputs ==
    {None, Some(<<>>), Some(<< <<"t1.id", val_eq("5")>> >>),
     Some(<< <<"t1.id", val_eq("5")>>, <<"t2.z", val_null(TRUE)>> >>)}
OrderInputs ==
    {None, Some(<<>>), Some(<< <<"t1.x", "ASC">> >>),
     Some(<< <<"t1.x", "ASC">>, <<"t2.y", "DESC NULLS FIRST">> >>)}
InsertMaps ==
    {Row1, Row2,
     << <<"b", PyStr("x")>>, <<"a", PyInt("1")>> >>,
     << <<"a", PyInt("1")>>, <<"b", PyStr("x")>>, <<"c", PyInt("2")>> >>}

InitSql ==
    /\ cfg = [backups |-> DefaultBackups, threshold |-> DefaultThreshold]
    /\ Fresh

SqlSelect ==
    /\ \E tables \in FromInputs, select \in SelectInputs, where \in WhereInputs,
          order \in OrderInputs :
         /\ call' = [op |-> "sql_select", tables |-> tables, select |-> select,
                     where |-> where, order |-> order]
         /\ sql' = <<sql_select(tables, select, where, order)>>
    /\ UNCHANGED <<cfg, constructed, live, bak, clock, created, result, trace>>

SqlInsert ==
    /\ \E table \in {"t", "u"}, data \in InsertMaps, ignore \in BOOLEAN :
         /\ call' = [op |-> "_row_insert", table |-> table, data |-> data,
                     ignore |-> ignore]
         /\ sql' = <<_row_insert(data, ignore, table)>>
    /\ UNCHANGED <<cfg, constructed, live, bak, clock, created, result, trace>>

NextSql ==
    \/ SqlSelect
    \/ SqlInsert

SpecSql == InitSql /\ [][NextSql]_vars

----------------------------------------------------------------------------
(* Properties *)

Events(tr) == {tr[i] : i \in 1..Len(tr)}
Occurrences(tr, e) == Cardinality({i \in 1..Len(tr) : tr[i] = e})
Kept == DOMAIN bak

\* the n latest stamps of S (all of S when it has fewer)
Recent(S, n) == {s \in S : Cardinality({x \in S : x > s}) < n}

AtMost(a, b) == IF a < b THEN a ELSE b

\* the last call was made by a caller of the handler, not by the environment
HandlerCall(c) == c.op \notin {"none", "chmod"}

\* C1: with only backup_create calls, starting from no backup file, there
\* are never more than N = |backups| backup files, the files kept are always the
\* latest ones written, and once a copy has completed there are exactly N of them
\* as soon as N files have been written
C1_Rotation ==
    /\ Cardinality(Kept) <= Retention(cfg)
    /\ Kept = Recent(created, Cardinality(Kept))
    /\ "backup" \in Events(trace) =>
          /\ Cardinality(Kept) = AtMost(Retention(cfg), Cardinality(created))
          /\ Kept = Recent(created, Retention(cfg))

C1_Witness ==
    /\ Retention(cfg) = MaxBackups
    /\ call.op = "backup_create" /\ result = "ok"
    /\ "unlink" \in Events(trace)
    /\ Cardinality(Kept) = MaxBackups
    /\ Cardinality(created) > MaxBackups

\* C2: for every configuration and non-empty table name, a row_insert of
\* threshold + 1 entries makes exactly one backup copy, completed before any
\* insert statement runs, and a row_insert of threshold entries makes none
\* (calls ended by an engine fault are left aside)
C2_BackupBeforeInsert ==
    (call.op = "row_insert" /\ call.table # "" /\ result # "OperationalError") =>
        /\ call.size = cfg.threshold + 1 =>
              /\ Occurrences(trace, "backup") = 1
              /\ \A i, j \in 1..Len(trace) :
                    (trace[i] = "backup" /\ trace[j] \in {"exec", "exec_failed"}) => i < j
        /\ call.size = cfg.threshold =>
              Events(trace) \cap {"backup", "connect_bck", "unlink"} = {}

\* C3: backup_set on an existing backup file whose permission bits differ from the
\* live database's raises PermissionError and leaves the live database and the
\* backup files as they were
C3_RestoreMismatch ==
    [][(/\ call'.op = "backup_set"
        /\ call'.target \in DOMAIN bak
        /\ bak[call'.target].mode # live.mode)
          => (result' = "PermissionError" /\ live' = live /\ bak' = bak)]_vars

C3_Witness ==
    /\ call.op = "backup_set" /\ result = "PermissionError"
    /\ call.target \in DOMAIN bak
    /\ bak[call.target].mode # live.mode

\* C4: whenever an operation of the handler removes a backup file from the
\* directory (backup_pop, backup_set, the eviction in backup_create), the file's
\* permission bits matched the live database's
C4_RemovedOnlyIfVerified ==
    [][HandlerCall(call') =>
          \A s \in DOMAIN bak \ DOMAIN bak' : bak[s].mode = live.mode]_vars

\* C5: row_insert, row_update and row_delete with an empty table name or a falsy
\* payload make no engine call at all and return normally
C5_NoEngineCall ==
    (/\ call.op \in {"row_insert", "row_update", "row_delete"}
     /\ (call.table = "" \/ (call.op # "row_delete" /\ call.truthy = 0)))
        => (trace = <<>> /\ result = "ok")

\* C6: an operation that raises because one of its statements fails in the engine
\* leaves the live database and the set of backup files exactly as they were
\* before it was called
C6_NoPartialEffect ==
    [][(HandlerCall(call') /\ result' # "ok" /\ "exec_failed" \in Events(trace'))
          => (live' = live /\ bak' = bak)]_vars

\* C7: after every operation, however it ended, every connection it opened has
\* been closed
C7_NoOpenConnection == OpenCount(trace) = 0

C7_Witness ==
    /\ result = "OperationalError"
    /\ "connect" \in Events(trace)
    /\ "exec_failed" \in Events(trace)

\* rendering of a list of texts with a separator, from the right
RECURSIVE ListText(_, _)
ListText(items, sep) ==
    IF Len(items) = 0 THEN ""
    ELSE IF Len(items) = 1 THEN items[1]
    ELSE ListText(SubSeq(items, 1, Len(items) - 1), sep) \o sep \o items[Len(items)]

EntryTexts(m) == [i \in 1..Len(m) |-> m[i][1] \o " " \o m[i][2]]
HasEntries(m) == m.some /\ m.val # <<>>

\* the text the assembly rules give: clauses separated by one space, ORDER BY
\* entries by ", ", nothing at all for an empty or absent mapping
ClaimedSelect(tables, select, where, order) ==
    "SELECT " \o (IF HasEntries(select) THEN ListText(select.val, ", ") ELSE "*")
      \o " FROM " \o ListText(tables.names, " NATURAL JOIN ")
      \o (IF HasEntries(where)
          THEN " WHERE " \o ListText(EntryTexts(where.val), " AND ") ELSE "")
      \o (IF HasEntries(order)
          THEN " ORDER BY " \o ListText(EntryTexts(order.val), ", ") ELSE "")
      \o ";"

\* the same with the two separating spaces always present and ORDER BY entries
\* separated by "," alone
AmendedSelect(tables, select, where, order) ==
    "SELECT " \o (IF HasEntries(select) THEN ListText(select.val, ", ") ELSE "*")
      \o " FROM " \o ListText(tables.names, " NATURAL JOIN ")
      \o " "
      \o (IF HasEntries(where)
          THEN "WHERE " \o ListText(EntryTexts(where.val), " AND ") ELSE "")
      \o " "
      \o (IF HasEntries(order)
          THEN "ORDER BY " \o ListText(EntryTexts(order.val), ",") ELSE "")
      \o ";"

ExampleCall ==
    [op |-> "sql_select", tables |-> List(<<"t1", "t2">>), select |-> Some(<<"t1.x">>),
     where |-> Some(<< <<"t1.id", "== '5'">> >>),
     order |-> Some(<< <<"t1.x", "ASC">> >>)]

\* C8 as claimed: sql_select yields exactly the text of the assembly rules
C8_SelectAsClaimed ==
    call.op = "sql_select" =>
        sql = <<ClaimedSelect(call.tables, call.select, call.where, call.order)>>

\* C8: sql_select yields SELECT, the columns joined by ", " (or *), FROM, the
\* tables joined by " NATURAL JOIN ", a space, the WHERE clause (entries joined by
\* " AND ", empty text for an empty or absent mapping), a space, the ORDER BY
\* clause (entries joined by "," without a space, empty text for an empty or
\* absent mapping) and ";"; the example call yields the example text
C8_SelectText ==
    call.op = "sql_select" =>
        /\ sql = <<AmendedSelect(call.tables, call.select, call.where, call.order)>>
        /\ call = ExampleCall =>
              sql = <<"SELECT t1.x FROM t1 NATURAL JOIN t2 WHERE t1.id == '5' ORDER BY t1.x ASC;">>

C8_Witness ==
    /\ call.op = "sql_select"
    /\ call.tables.list
    /\ ~HasEntries(call.where)
    /\ HasEntries(call.order) /\ Len(call.order.val) = 2

\* the insert statement of the rules; names and values are written as repr()
\* writes them, as the code does
ClaimedInsert(table, data, ignore) ==
    "INSERT " \o (IF ignore THEN "OR IGNORE " ELSE "") \o "INTO " \o table
      \o " (" \o ListText([i \in 1..Len(data) |-> Repr(PyStr(data[i][1]))], ", ")
      \o ") VALUES ("
      \o ListText([i \in 1..Len(data) |-> Repr(data[i][2])], ", ") \o ");"

\* C9: for every non-empty mapping, of one column or more, the statement is
\* INSERT [OR IGNORE] INTO table (col1, col2, ...) VALUES (val1, val2, ...); with
\* as many columns and values as the mapping has entries, in its order
C9_InsertText ==
    call.op = "_row_insert" =>
        sql = <<ClaimedInsert(call.table, call.data, call.ignore)>>

\* C10: a successful backup_set(b) puts b's contents in place of the live
\* database and takes b out of the directory, every other backup file staying as
\* it was; a failed one changes nothing; and a b that is not in the directory
\* (as after its restore) gets FileNotFoundError
C10_RestoreConsumes ==
    [][call'.op = "backup_set" =>
          /\ result' = "ok" =>
                /\ call'.target \in DOMAIN bak
                /\ live' = bak[call'.target]
                /\ DOMAIN bak' = DOMAIN bak \ {call'.target}
                /\ \A s \in DOMAIN bak' : bak'[s] = bak[s]
          /\ result' # "ok" => (live' = live /\ bak' = bak)
          /\ call'.target \notin DOMAIN bak => result' = "FileNotFoundError"]_vars

C10_Witness ==
    /\ call.op = "backup_set" /\ result = "ok"
    /\ call.target \notin DOMAIN bak
    /\ DOMAIN bak # {}
    /\ \E s \in DOMAIN bak : bak[s] # live

====
